---------------------------- MODULE Spec2Model ----------------------------
(***************************************************************************)
(* A model of the colour-contrast checker: the shared stylesheet index     *)
(* (AllCssRule), the static pipeline (checkStaticCCwithCss), the dynamic   *)
(* pipeline (checkDynamicColorContrastCheck), the evaluator                *)
(* (checkContrastCoreLogic) and the background resolver                    *)
(* (getEffectiveBackgroundColor).                                          *)
(*                                                                         *)
(* Representation.  JavaScript strings that the code only compares or      *)
(* scans with a regular expression are TLA+ strings taken from small       *)
(* catalogues; what a regular expression or parseInt/parseFloat yields on  *)
(* a catalogue string is tabulated next to the catalogue.  Hex strings     *)
(* that the code computes (rgbToHex) or parses (hexToRgb) are sequences of *)
(* hex digit values, so that the conversions are computed, not assumed.    *)
(* Floating-point luminance is fixed point with five decimals per channel. *)
(***************************************************************************)
EXTENDS Integers, Sequences, FiniteSets, TLC

\* Number of elements page.evaluate returns for one document.
MaxElems == 2
\* Number of nodes of a document tree handed to the background resolver.
MaxNodes == 3

\* JavaScript null / undefined where a string is expected.
Null == "<null>"
\* JavaScript null where a hex string is expected (rgbToHex's "invalid").
NullHex == <<-1>>
\* A character that is not a hex digit, inside a hex string ("N" of "#AN").
NonHexChar == 16

Max(a, b) == IF a >= b THEN a ELSE b
Min(a, b) == IF a <= b THEN a ELSE b

(***************************************************************************)
(* Colour strings.                                                         *)
(***************************************************************************)
White == "rgb(255, 255, 255)"
TransparentRgba == "rgba(0, 0, 0, 0)"
TransparentWord == "transparent"

\* Values window.getComputedStyle(e).color can take (always functional).
ComputedTextColors == {"rgb(0, 0, 0)", "rgb(136, 136, 136)", "rgb(170, 170, 170)"}
\* Values window.getComputedStyle(e).backgroundColor can take, as the
\* resolver's guard distinguishes them: absent, the two transparent
\* spellings, and opaque colours.
OwnBackgrounds == {"", TransparentRgba, TransparentWord, White, "rgb(0, 0, 0)"}

\* color.match(/\d+/g): the runs of decimal digits, each as parseInt reads
\* it; << >> stands for null (no match).
DigitRuns(color) ==
    CASE color = "rgb(255, 255, 255)" -> <<255, 255, 255>>
      [] color = "rgb(0, 0, 0)"       -> <<0, 0, 0>>
      [] color = "rgb(136, 136, 136)" -> <<136, 136, 136>>
      [] color = "rgb(170, 170, 170)" -> <<170, 170, 170>>
      [] color = "rgba(0, 0, 0, 0)"   -> <<0, 0, 0, 0>>
      [] color = "#AAAAAA"            -> << >>
      [] color = "#abc"               -> << >>
      [] color = "#aabbcc"            -> << >>
      [] color = "#000000"            -> <<0>>
      [] color = "#FFFFFF"            -> << >>
      [] color = "#888888"            -> <<888888>>
      [] color = "#767676"            -> <<767676>>
      [] color = "#777777"            -> <<777777>>
      [] color = "transparent"        -> << >>
      [] color = "red"                -> << >>
      [] OTHER                        -> << >>

\* The hex digits after "#" of the catalogue's hex strings.
HexDigitsOf(color) ==
    CASE color = "#AAAAAA" -> <<10, 10, 10, 10, 10, 10>>
      [] color = "#aabbcc" -> <<10, 10, 11, 11, 12, 12>>
      [] color = "#abc"    -> <<10, 11, 12>>
      [] color = "#000000" -> <<0, 0, 0, 0, 0, 0>>
      [] color = "#FFFFFF" -> <<15, 15, 15, 15, 15, 15>>
      [] color = "#888888" -> <<8, 8, 8, 8, 8, 8>>
      [] color = "#767676" -> <<7, 6, 7, 6, 7, 6>>
      [] color = "#777777" -> <<7, 7, 7, 7, 7, 7>>
      [] OTHER             -> << >>

\* isHexColor: /^#([0-9A-F]{3}){1,2}$/i.test(color)
HexColors ==
    {"#AAAAAA", "#aabbcc", "#abc", "#000000", "#FFFFFF", "#888888", "#767676",
     "#777777"}
IsHexColor(color) == color \in HexColors

\* x << k.  The operands the catalogue yields (x <= 255, k <= 24) stay
\* far below 2^31, where the 32-bit shift would wrap.
Shl32(x, k) == x * (2 ^ k)

RECURSIVE ToString16(_)
\* n.toString(16) for n >= 0, as hex digit values.
ToString16(n) == IF n < 16 THEN <<n>> ELSE Append(ToString16(n \div 16), n % 16)

\* rgbToHex: "#" + ((1<<24) + (r<<16) + (g<<8) + b).toString(16).slice(1);
\* null when the string holds no digits; with fewer than three runs
\* parseInt(undefined) is NaN, the sum is NaN and the result is "#AN".
RgbToHex(rgb) ==
    LET result == DigitRuns(rgb)
    IN  IF result = << >> THEN NullHex
        ELSE IF Len(result) < 3 THEN <<10, NonHexChar>>
        ELSE Tail(ToString16(Shl32(1, 24) + Shl32(result[1], 16)
                             + Shl32(result[2], 8) + result[3]))

RECURSIVE ParseInt16(_, _)
\* parseInt(hex, 16): the longest prefix of hex digits (acc so far).
ParseInt16(digits, acc) ==
    IF digits = << >> \/ Head(digits) = NonHexChar THEN acc
    ELSE ParseInt16(Tail(digits), acc * 16 + Head(digits))

\* hexToRgb: the three low bytes of parseInt(hex, 16).  The caller has
\* excluded null, on which hex.replace throws.
HexToRgb(hex) ==
    LET bigint == ParseInt16(hex, 0)
    IN  <<(bigint \div 65536) % 256, (bigint \div 256) % 256, bigint % 256>>

\* The per-channel linearisation of getLuminance, in units of 1e-5:
\* v/255 <= 0.03928 ? v/255/12.92 : ((v/255 + 0.055)/1.055)^2.4.
LinearTable == <<
    0, 30, 61, 91, 121, 152, 182, 212, 243, 273, 304, 335, 368, 402, 439, 478,
    518, 561, 605, 651, 700, 750, 802, 857, 913, 972, 1033, 1096, 1161, 1229, 1298, 1370,
    1444, 1521, 1600, 1681, 1764, 1850, 1938, 2029, 2122, 2217, 2315, 2416, 2519, 2624, 2732, 2843,
    2956, 3071, 3190, 3310, 3434, 3560, 3689, 3820, 3955, 4092, 4231, 4374, 4519, 4667, 4817, 4971,
    5127, 5286, 5448, 5613, 5781, 5951, 6125, 6301, 6480, 6663, 6848, 7036, 7227, 7421, 7619, 7819,
    8022, 8228, 8438, 8650, 8866, 9084, 9306, 9531, 9759, 9990, 10224, 10462, 10702, 10946, 11193, 11444,
    11697, 11954, 12214, 12477, 12744, 13014, 13287, 13563, 13843, 14126, 14413, 14703, 14996, 15293, 15593, 15896,
    16203, 16513, 16827, 17144, 17465, 17789, 18116, 18447, 18782, 19120, 19462, 19807, 20156, 20508, 20864, 21223,
    21586, 21953, 22323, 22697, 23074, 23455, 23840, 24228, 24620, 25016, 25415, 25818, 26225, 26636, 27050, 27468,
    27889, 28315, 28744, 29177, 29614, 30054, 30499, 30947, 31399, 31855, 32314, 32778, 33245, 33716, 34191, 34670,
    35153, 35640, 36131, 36625, 37124, 37626, 38133, 38643, 39157, 39676, 40198, 40724, 41254, 41789, 42327, 42869,
    43415, 43966, 44520, 45079, 45641, 46208, 46778, 47353, 47932, 48515, 49102, 49693, 50289, 50888, 51492, 52100,
    52712, 53328, 53948, 54572, 55201, 55834, 56471, 57112, 57758, 58408, 59062, 59720, 60383, 61050, 61721, 62396,
    63076, 63760, 64448, 65141, 65837, 66539, 67244, 67954, 68669, 69387, 70110, 70838, 71569, 72306, 73046, 73791,
    74540, 75294, 76052, 76815, 77582, 78354, 79130, 79910, 80695, 81485, 82279, 83077, 83880, 84687, 85499, 86316,
    87137, 87962, 88792, 89627, 90466, 91310, 92158, 93011, 93869, 94731, 95597, 96469, 97345, 98225, 99110, 100000 >>

\* getLuminance: 0.2126 R + 0.7152 G + 0.0722 B, in units of 1e-7.
GetLuminance(rgb) ==
    (2126 * LinearTable[rgb[1] + 1] + 7152 * LinearTable[rgb[2] + 1]
     + 722 * LinearTable[rgb[3] + 1]) \div 100


(***************************************************************************)
(* checkContrastCoreLogic                                                  *)
(***************************************************************************)
\* `${v}` of a value that may be null.
TemplateString(v) == IF v = Null THEN "null" ELSE v

\* A plausible slip: the two branches of each conditional swapped.
RequiredContrastSwapped(isLargeText, contrastLevel) ==
    IF contrastLevel = "AAA"
    THEN (IF isLargeText THEN 70 ELSE 45)
    ELSE (IF isLargeText THEN 45 ELSE 30)

\* The required ratio, times ten, for a level the evaluator accepts.
RequiredContrast(isLargeText, contrastLevel) ==
    IF contrastLevel = "AAA"
    THEN (IF isLargeText THEN 45 ELSE 70)
    ELSE (IF isLargeText THEN 30 ELSE 45)

\* contrastRatio < requiredContrast, the ratio being num / den.
BelowRequired(num, den, required10) == 10 * num < required10 * den

\* contrastRatio.toFixed(2), times one hundred.
ToFixed2(num, den) == (200 * num + den) \div (2 * den)

NoError == [thrown |-> FALSE]
\* hex.replace on null, inside hexToRgb.
NullReplaceError ==
    [thrown |-> TRUE, name |-> "TypeError",
     message |-> [text |-> "Cannot read properties of null (reading 'replace')"]]
InvalidLevelError ==
    [thrown |-> TRUE, name |-> "Error",
     message |-> [text |-> "Invalid contrast level provided. Use 'AA' or 'AAA'."]]
LowContrastError(element, num, den, required10, isLargeText, contrastLevel, textColor, backgroundColor) ==
    [thrown |-> TRUE, name |-> "Error",
     message |-> [text |-> "Contrast ratio is below the required",
                  selector |-> element.selector,
                  ratio |-> ToFixed2(num, den),
                  required |-> required10,
                  size |-> IF isLargeText THEN "large" ELSE "normal",
                  level |-> contrastLevel,
                  id |-> TemplateString(element.id),
                  textColor |-> textColor,
                  backgroundColor |-> backgroundColor]]

\* A plausible slip: a plain else instead of else-if, so that every level
\* other than "AAA" is treated as "AA".
LevelAcceptedAny(contrastLevel) == TRUE

\* The level is one of the two the if / else-if chain names.
LevelAccepted(contrastLevel) == contrastLevel \in {"AAA", "AA"}

\* What a call of checkContrastCoreLogic throws (NoError: it returns).
\* 0.05 is 500000 in the luminance unit.
CheckContrastCoreLogic(hexTextColor, hexBackgroundColor, isLargeText, element, textColor, backgroundColor, contrastLevel) ==
    IF hexTextColor = NullHex \/ hexBackgroundColor = NullHex
    THEN NullReplaceError
    ELSE LET textLuminance == GetLuminance(HexToRgb(hexTextColor))
             backgroundLuminance == GetLuminance(HexToRgb(hexBackgroundColor))
             num == Max(textLuminance, backgroundLuminance) + 500000
             den == Min(textLuminance, backgroundLuminance) + 500000
         IN  IF ~LevelAccepted(contrastLevel)
             THEN InvalidLevelError
             ELSE IF BelowRequired(num, den,
                                   RequiredContrast(isLargeText, contrastLevel))
                  THEN LowContrastError(element, num, den,
                                        RequiredContrast(isLargeText, contrastLevel),
                                        isLargeText, contrastLevel,
                                        textColor, backgroundColor)
                  ELSE NoError

(***************************************************************************)
(* isTextLarge                                                             *)
(***************************************************************************)
\* parseFloat(fontSize), in hundredths; << >> is NaN.
ParseFloat(fontSize) ==
    CASE fontSize = "13px"   -> <<1300>>
      [] fontSize = "14px"   -> <<1400>>
      [] fontSize = "16px"   -> <<1600>>
      [] fontSize = "17px"   -> <<1700>>
      [] fontSize = "17.9px" -> <<1790>>
      [] fontSize = "18px"   -> <<1800>>
      [] fontSize = "1.5em"  -> <<150>>
      [] OTHER               -> << >>

\* parseInt(fontWeight); << >> is NaN.
ParseInt(fontWeight) ==
    CASE fontWeight = "400"   -> <<400>>
      [] fontWeight = "699.9" -> <<699>>
      [] fontWeight = "700"   -> <<700>>
      [] fontWeight = "900"   -> <<900>>
      [] OTHER                -> << >>

\* A plausible slip: > where the code has >=.
AtLeastStrict(x, n) == x # << >> /\ x[1] > n

\* x >= n for a number that may be NaN (every comparison with NaN is false).
AtLeast(x, n) == x # << >> /\ x[1] >= n

IsTextLarge(fontSize, fontWeight) ==
    LET sizeInPx == ParseFloat(fontSize)
        isBold == AtLeast(ParseInt(fontWeight), 700)
    IN  AtLeast(sizeInPx, 1800) \/ (AtLeast(sizeInPx, 1400) /\ isBold)

(***************************************************************************)
(* getEffectiveBackgroundColor (one copy in each pipeline)                 *)
(***************************************************************************)
\* element.parentElement of the root; also the argument of the base case.
NoElement == 0

\* Document trees: node 1 is the root, every other node hangs under an
\* earlier node; bg is window.getComputedStyle(node).backgroundColor.
Doms ==
    { [parent |-> p, bg |-> b] :
        p \in { f \in [1..MaxNodes -> 0..(MaxNodes - 1)] :
                  /\ f[1] = NoElement
                  /\ \A i \in 2..MaxNodes : f[i] >= 1 /\ f[i] < i },
        b \in [1..MaxNodes -> OwnBackgrounds] }

\* A plausible slip: no walk up the ancestors, white as soon as the
\* element itself is transparent.
GetEffectiveBackgroundColorNoWalk(dom, element) ==
    IF element = NoElement THEN White
    ELSE IF /\ dom.bg[element] # ""
            /\ dom.bg[element] # TransparentRgba
            /\ dom.bg[element] # TransparentWord
         THEN dom.bg[element]
         ELSE White

RECURSIVE GetEffectiveBackgroundColor(_, _)
\* src/checkStaticCCwithCss.js
GetEffectiveBackgroundColor(dom, element) ==
    IF element = NoElement THEN White
    ELSE LET backgroundColor == dom.bg[element]
         IN  IF /\ backgroundColor # ""
                /\ backgroundColor # TransparentRgba
                /\ backgroundColor # TransparentWord
             THEN backgroundColor
             ELSE GetEffectiveBackgroundColor(dom, dom.parent[element])

RECURSIVE GetEffectiveBackgroundColorDynamic(_, _)
\* the copy inside checkDynamicColorContrastCheck
GetEffectiveBackgroundColorDynamic(dom, element) ==
    IF element = NoElement THEN White
    ELSE LET backgroundColor == dom.bg[element]
         IN  IF /\ backgroundColor # ""
                /\ backgroundColor # TransparentRgba
                /\ backgroundColor # TransparentWord
             THEN backgroundColor
             ELSE GetEffectiveBackgroundColorDynamic(dom, dom.parent[element])

(***************************************************************************)
(* The stylesheet index: parseAndAccumulateCSSFiles, getStylesForClasses   *)
(***************************************************************************)
\* The file names listed in CSS_PATHS/cssFiles.json, in its order.
CssFilesJson == <<"base.css", "theme.css", "broken.css">>

Declaration(property, value) == [property |-> property, value |-> value]

\* css.parse(fs.readFileSync(file)): parses is FALSE when css.parse throws.
\*   base.css    .a { color: #AAAAAA }
\*               p { color: rgb(136, 136, 136); font-size: 18px }
\*   theme.css   /* theme */
\*               .a { color: rgb(0, 0, 0); background-color: rgba(0, 0, 0, 0) }
\*               .p { color: red; background-color: transparent }
\*   broken.css  (malformed)
CssParse(file) ==
    CASE file = "base.css" ->
           [parses |-> TRUE,
            rules |-> <<
              [type |-> "rule", selectors |-> <<".a">>,
               declarations |-> <<Declaration("color", "#AAAAAA")>>],
              [type |-> "rule", selectors |-> <<"p">>,
               declarations |-> <<Declaration("color", "rgb(136, 136, 136)"),
                                  Declaration("font-size", "18px")>>] >>]
      [] file = "theme.css" ->
           [parses |-> TRUE,
            rules |-> <<
              [type |-> "comment", selectors |-> << >>, declarations |-> << >>],
              [type |-> "rule", selectors |-> <<".a">>,
               declarations |-> <<Declaration("color", "rgb(0, 0, 0)"),
                                  Declaration("background-color", "rgba(0, 0, 0, 0)")>>],
              [type |-> "rule", selectors |-> <<".p">>,
               declarations |-> <<Declaration("color", "red"),
                                  Declaration("background-color", "transparent")>>] >>]
      [] OTHER -> [parses |-> FALSE, rules |-> << >>]

\* selector.replace(/^\./, "") on the selectors of the files above.
StripLeadingDot(selector) ==
    CASE selector = ".a" -> "a"
      [] selector = ".p" -> "p"
      [] OTHER           -> selector

\* {} : an object with no property.
EmptyObject == << >>

\* obj[key] = value
SetProperty(obj, key, value) ==
    [k \in (DOMAIN obj) \cup {key} |-> IF k = key THEN value ELSE obj[k]]

\* obj[key], undefined when absent
GetProperty(obj, key) == IF key \in DOMAIN obj THEN obj[key] ELSE Null

\* JavaScript truthiness of a string-or-null.
Truthy(v) == v # Null /\ v # ""

RECURSIVE AccumulateDeclarations(_, _, _)
\* rule.declarations.forEach(d => AllCssRule[className][d.property] = d.value)
AccumulateDeclarations(index, className, declarations) ==
    IF declarations = << >> THEN index
    ELSE AccumulateDeclarations(
           SetProperty(index, className,
                       SetProperty(index[className], Head(declarations).property,
                                   Head(declarations).value)),
           className, Tail(declarations))

RECURSIVE AccumulateSelectors(_, _, _)
\* rule.selectors.forEach(selector => ...)
AccumulateSelectors(index, selectors, declarations) ==
    IF selectors = << >> THEN index
    ELSE LET className == StripLeadingDot(Head(selectors))
             withKey == IF className \in DOMAIN index THEN index
                        ELSE SetProperty(index, className, EmptyObject)
         IN  AccumulateSelectors(
               AccumulateDeclarations(withKey, className, declarations),
               Tail(selectors), declarations)

RECURSIVE AccumulateRules(_, _)
\* parsedCSS.stylesheet.rules.forEach(rule => if (rule.type === "rule") ...)
AccumulateRules(index, rules) ==
    IF rules = << >> THEN index
    ELSE AccumulateRules(
           IF Head(rules).type = "rule"
           THEN AccumulateSelectors(index, Head(rules).selectors,
                                    Head(rules).declarations)
           ELSE index,
           Tail(rules))

RECURSIVE AccumulateFiles(_, _)
\* cssFiles.forEach: a file that does not parse contributes nothing.
AccumulateFiles(index, cssFiles) ==
    IF cssFiles = << >> THEN index
    ELSE AccumulateFiles(
           IF CssParse(Head(cssFiles)).parses
           THEN AccumulateRules(index, CssParse(Head(cssFiles)).rules)
           ELSE index,
           Tail(cssFiles))

\* parseAndAccumulateCSSFiles: the new value of AllCssRule, from its old
\* value (index) and the document's stylesheet names.
ParseAndAccumulateCSSFiles(index, styleSheetnameArray) ==
    AccumulateFiles(index,
                    SelectSeq(CssFilesJson, LAMBDA f : f \in styleSheetnameArray))

RECURSIVE GetStylesFrom(_, _, _)
GetStylesFrom(index, classList, accumulatedStyles) ==
    IF classList = << >> THEN accumulatedStyles
    ELSE LET styles == IF Head(classList) \in DOMAIN index
                       THEN index[Head(classList)] ELSE EmptyObject
             pick(prop, old) == IF Truthy(GetProperty(styles, prop))
                                THEN GetProperty(styles, prop) ELSE old
         IN  GetStylesFrom(index, Tail(classList),
               [textColor |-> pick("color", accumulatedStyles.textColor),
                backgroundColor |-> pick("background-color",
                                         accumulatedStyles.backgroundColor),
                fontSize |-> pick("font-size", accumulatedStyles.fontSize),
                fontWeight |-> pick("font-weight", accumulatedStyles.fontWeight)])

\* A plausible slip: the first class that defines a property wins.
GetStylesForClassesFirstWins(index, classList) ==
    GetStylesFrom(index,
                  [i \in 1..Len(classList) |-> classList[Len(classList) + 1 - i]],
                  [textColor |-> Null, backgroundColor |-> Null,
                   fontSize |-> Null, fontWeight |-> Null])

\* getStylesForClasses, reading the index it is given (AllCssRule).
GetStylesForClasses(index, classList) ==
    GetStylesFrom(index, classList,
                  [textColor |-> Null, backgroundColor |-> Null,
                   fontSize |-> Null, fontWeight |-> Null])

(***************************************************************************)
(* State                                                                   *)
(***************************************************************************)
VARIABLES
    AllCssRule,    \* the module-level index of checkStaticCCwithCss.js
    pc,            \* where the running pipeline call stands
    mode,          \* which pipeline is running
    sheets,        \* styleSheetnameArray of the running static call
    logsDefined,   \* whether the caller passed a log array (logs1)
    logs,          \* the log array (logs1, or the local logs2)
    elements,      \* what page.evaluate returned
    idx,           \* position of the for-of loop (1-based)
    totalChecked,
    totalFailed,
    data,          \* the report entries pushed so far
    cur,           \* the locals of the last loop body that ran
    result,        \* what the call returned
    call,          \* a direct call of an exported function and its outcome
    runs           \* the calls of checkStaticCCwithCss in flight together

runVars == <<pc, mode, sheets, logsDefined, logs, elements, idx,
             totalChecked, totalFailed, data, cur, result>>
vars == <<AllCssRule, pc, mode, sheets, logsDefined, logs, elements, idx,
          totalChecked, totalFailed, data, cur, result, call, runs>>

NoCur == [ran |-> FALSE]
NoResult == [returned |-> FALSE]
NoCall == [fn |-> "none"]

\* The documents the caller evaluates in parallel, one call each.
Documents == {1, 2}
\* A call that has not been made yet.
NotCalled == [pc |-> "idle"]

\* page.url().split("/") of the page under test.
PageUrl == <<"file:", "", "", "lectora_Package", "page1.html">>
\* title.slice(title.length - 2, title.length).join("/")
PageName(title) == <<title[Len(title) - 1], title[Len(title)]>>

ElementIds == {Null, "hdr"}
ClassLists == {<< >>, <<"a">>, <<"p">>, <<"a", "p">>, <<"p", "a">>}

\* What each resolver can hand to its pipeline.
EffectiveBackgrounds ==
    {GetEffectiveBackgroundColor(d, n) : d \in Doms, n \in 1..MaxNodes}
EffectiveBackgroundsDynamic ==
    {GetEffectiveBackgroundColorDynamic(d, n) : d \in Doms, n \in 1..MaxNodes}

\* The records the static page.evaluate maps an element to (html apart).
StaticElements ==
    [text : {""}, selector : {"div"}, id : {Null},
     classList : {<< >>, <<"a">>}, effectiveBackgroundColor : {White}]
    \cup
    [text : {"Lorem"}, selector : {"div"}, id : ElementIds,
     classList : ClassLists, effectiveBackgroundColor : EffectiveBackgrounds]

\* The records the dynamic page.evaluate maps an element to (html apart).
DynamicElements ==
    [text : {""}, selector : {"div"}, id : {Null},
     computedStyles : [textColor : {"rgb(170, 170, 170)"},
                       backgroundColor : {White},
                       fontSize : {"16px"}, fontWeight : {"400"}]]
    \cup
    [text : {"Lorem"}, selector : {"div"}, id : ElementIds,
     computedStyles : [textColor : ComputedTextColors,
                       backgroundColor : EffectiveBackgroundsDynamic,
                       fontSize : {"16px", "18px"}, fontWeight : {"400"}]]

\* The array page.evaluate returns: element.outerHTML of the i-th element
\* is markup i.
StaticFetch(shapes) ==
    [i \in 1..MaxElems |->
       [text |-> shapes[i].text, html |-> i, selector |-> shapes[i].selector,
        id |-> shapes[i].id, classList |-> shapes[i].classList,
        effectiveBackgroundColor |-> shapes[i].effectiveBackgroundColor]]
DynamicFetch(shapes) ==
    [i \in 1..MaxElems |->
       [text |-> shapes[i].text, html |-> i, selector |-> shapes[i].selector,
        id |-> shapes[i].id, computedStyles |-> shapes[i].computedStyles]]

\* element.id || "No ID"
IdOrNoId(element) == IF Truthy(element.id) THEN element.id ELSE "No ID"

CheckingLog(element) ==
    [kind |-> "Checking", page |-> PageUrl, tag |-> element.selector,
     id |-> IdOrNoId(element)]
ErrorLog(element, error) ==
    [kind |-> "Error", page |-> PageUrl, tag |-> element.selector,
     id |-> IdOrNoId(element), reason |-> error.message]
ReportEntry(element, error) ==
    [Tag |-> element.html, PageName |-> PageName(PageUrl),
     Reason_For_Failing |-> error.message]

\* return { xlsxArray: data, totalChecked, totalFailed }
Returned(xlsxArray, checked, failed) ==
    [returned |-> TRUE, xlsxArray |-> xlsxArray,
     totalChecked |-> checked, totalFailed |-> failed]
\* the outer catch: return { xlsxArray: [], totalChecked: 0, totalFailed: 0 }
CaughtResult == Returned(<< >>, 0, 0)

Init ==
    /\ AllCssRule = EmptyObject
    /\ pc = "idle"
    /\ mode = "none"
    /\ sheets = {}
    /\ logsDefined = FALSE
    /\ logs = << >>
    /\ elements = << >>
    /\ idx = 1
    /\ totalChecked = 0
    /\ totalFailed = 0
    /\ data = << >>
    /\ cur = NoCur
    /\ result = NoResult
    /\ call = NoCall
    /\ runs = [d \in Documents |-> NotCalled]

(***************************************************************************)
(* The loop body shared in shape by the two pipelines: normalise the two   *)
(* colours, classify the size, call the evaluator at level AA.             *)
(***************************************************************************)
\* The level both pipelines pass to checkContrast.
PipelineLevel == "AA"

\* if (!isHexColor(c)) hex = rgbToHex(c)
NormalizeColor(color) ==
    IF IsHexColor(color) THEN HexDigitsOf(color) ELSE RgbToHex(color)

\* The body of `if (textColor && backgroundColor) { ... try { checkContrast } }`:
\* the locals it leaves and what checkContrast threw.
EvaluateElement(e, textColor, backgroundColor, fontSize, fontWeight) ==
    LET hexTextColor == NormalizeColor(textColor)
        hexBackgroundColor == NormalizeColor(backgroundColor)
        isLargeText == IsTextLarge(fontSize, fontWeight)
    IN  [ran |-> TRUE, evaluated |-> TRUE, element |-> e,
         textColor |-> textColor, backgroundColor |-> backgroundColor,
         fontSize |-> fontSize, fontWeight |-> fontWeight,
         hexTextColor |-> hexTextColor,
         hexBackgroundColor |-> hexBackgroundColor,
         isLargeText |-> isLargeText,
         error |-> CheckContrastCoreLogic(hexTextColor, hexBackgroundColor,
                                          isLargeText, e, textColor,
                                          backgroundColor, PipelineLevel)]

\* The locals of a loop body that did not reach checkContrast.
NotEvaluated(e, textColor, backgroundColor, fontSize, fontWeight) ==
    [ran |-> TRUE, evaluated |-> FALSE, element |-> e,
     textColor |-> textColor, backgroundColor |-> backgroundColor,
     fontSize |-> fontSize, fontWeight |-> fontWeight,
     error |-> NoError]

(***************************************************************************)
(* checkStaticCCwithCss                                                    *)
(***************************************************************************)
\* A plausible slip: the test for empty text is missing.
HasNoTextNever(element) == FALSE

\* !element.text
HasNoText(element) == ~Truthy(element.text)

\* A plausible slip: the element is not counted where it is checked.
CountCheckedDropped(checked) == checked

\* totalChecked += 1
CountChecked(checked) == checked + 1

\* Lines 154-162: the four style values of an element.
StaticStyles(index, element) ==
    LET found == GetStylesForClasses(index, element.classList)
    IN  [textColor |-> found.textColor,
         backgroundColor |->
            IF Truthy(found.backgroundColor) THEN found.backgroundColor
            ELSE IF Truthy(element.effectiveBackgroundColor)
                 THEN element.effectiveBackgroundColor
                 ELSE White,
         fontSize |-> IF Truthy(found.fontSize) THEN found.fontSize ELSE "16px",
         fontWeight |-> IF Truthy(found.fontWeight) THEN found.fontWeight
                        ELSE "400"]

\* Lines 154-183: the locals of one loop body and what checkContrast threw.
StaticBodyLocals(index, element) ==
    LET st == StaticStyles(index, element)
    IN  IF Truthy(st.textColor) /\ Truthy(st.backgroundColor)
        THEN EvaluateElement(element, st.textColor, st.backgroundColor,
                             st.fontSize, st.fontWeight)
        ELSE NotEvaluated(element, st.textColor, st.backgroundColor,
                          st.fontSize, st.fontWeight)

\* The call up to its first await: the locals are initialised, the
\* stylesheets of the document are accumulated into AllCssRule, and
\* page.evaluate hands back the elements.
StaticBegin ==
    /\ pc = "idle" /\ call = NoCall
    /\ \E styleSheetnameArray \in SUBSET {CssFilesJson[i] : i \in DOMAIN CssFilesJson},
          logs1 \in BOOLEAN,
          shapes \in [1..MaxElems -> StaticElements] :
          /\ AllCssRule' = ParseAndAccumulateCSSFiles(AllCssRule, styleSheetnameArray)
          /\ sheets' = styleSheetnameArray
          /\ logsDefined' = logs1
          /\ elements' = StaticFetch(shapes)
    /\ mode' = "static"
    /\ logs' = << >>
    /\ idx' = 1
    /\ totalChecked' = 0
    /\ totalFailed' = 0
    /\ data' = << >>
    /\ cur' = NoCur
    /\ pc' = "loop"
    /\ UNCHANGED <<result, call>>
    /\ UNCHANGED runs

\* The head of the for-of loop, down to the awaits inside logs1.push(...):
\* the loop ends and the call returns; or the element has no text and is
\* skipped; or it is counted and, logs1 being undefined, logs1.push throws
\* into the outer catch; or the body awaits page.title() and page.url().
StaticLoop ==
    /\ pc = "loop" /\ mode = "static"
    /\ IF idx > Len(elements)
       THEN /\ result' = Returned(data, totalChecked, totalFailed)
            /\ pc' = "returned"
            /\ UNCHANGED <<idx, totalChecked>>
       ELSE IF HasNoText(elements[idx])
       THEN /\ idx' = idx + 1
            /\ UNCHANGED <<pc, totalChecked, result>>
       ELSE /\ totalChecked' = CountChecked(totalChecked)
            /\ IF logsDefined
               THEN pc' = "body" /\ UNCHANGED result
               ELSE pc' = "returned" /\ result' = CaughtResult
            /\ UNCHANGED idx
    /\ UNCHANGED <<AllCssRule, mode, sheets, logsDefined, logs, elements,
                   totalFailed, data, cur, call>>
    /\ UNCHANGED runs

\* After the awaits: the log line, the styles, the evaluation.  When
\* checkContrast throws, totalFailed is incremented and the catch block
\* awaits page.url().
StaticBody ==
    /\ pc = "body" /\ mode = "static"
    /\ logs' = Append(logs, CheckingLog(elements[idx]))
    /\ cur' = StaticBodyLocals(AllCssRule, elements[idx])
    /\ IF cur'.error.thrown
       THEN /\ totalFailed' = totalFailed + 1
            /\ pc' = "report"
            /\ UNCHANGED idx
       ELSE /\ idx' = idx + 1
            /\ pc' = "loop"
            /\ UNCHANGED totalFailed
    /\ UNCHANGED <<AllCssRule, mode, sheets, logsDefined, elements,
                   totalChecked, data, result, call>>
    /\ UNCHANGED runs

\* The rest of the catch block: the error line and the report entry.
StaticReport ==
    /\ pc = "report" /\ mode = "static"
    /\ logs' = Append(logs, ErrorLog(elements[idx], cur.error))
    /\ data' = Append(data, ReportEntry(elements[idx], cur.error))
    /\ idx' = idx + 1
    /\ pc' = "loop"
    /\ UNCHANGED <<AllCssRule, mode, sheets, logsDefined, elements,
                   totalChecked, totalFailed, cur, result, call>>
    /\ UNCHANGED runs

(***************************************************************************)
(* checkDynamicColorContrastCheck                                          *)
(***************************************************************************)
\* Lines 83-117: the locals of one loop body and what checkContrast threw.
DynamicBodyLocals(element) ==
    LET st == element.computedStyles
    IN  IF st.backgroundColor = TransparentRgba
           \/ st.backgroundColor = TransparentWord
        THEN NotEvaluated(element, st.textColor, st.backgroundColor,
                          st.fontSize, st.fontWeight)
        ELSE IF Truthy(st.textColor) /\ Truthy(st.backgroundColor)
        THEN EvaluateElement(element, st.textColor, st.backgroundColor,
                             st.fontSize, st.fontWeight)
        ELSE NotEvaluated(element, st.textColor, st.backgroundColor,
                          st.fontSize, st.fontWeight)

\* The call up to its first await; logs2 is the local array that shadows
\* the parameter.
DynamicBegin ==
    /\ pc = "idle" /\ call = NoCall
    /\ \E shapes \in [1..MaxElems -> DynamicElements] :
          elements' = DynamicFetch(shapes)
    /\ mode' = "dynamic"
    /\ sheets' = {}
    /\ logsDefined' = TRUE
    /\ logs' = << >>
    /\ idx' = 1
    /\ totalChecked' = 0
    /\ totalFailed' = 0
    /\ data' = << >>
    /\ cur' = NoCur
    /\ pc' = "loop"
    /\ UNCHANGED <<AllCssRule, result, call>>
    /\ UNCHANGED runs

\* The head of the for-of loop: return, or await page.title() and
\* page.url() for the log line of the next element.
DynamicLoop ==
    /\ pc = "loop" /\ mode = "dynamic"
    /\ IF idx > Len(elements)
       THEN /\ result' = Returned(data, totalChecked, totalFailed)
            /\ pc' = "returned"
       ELSE /\ pc' = "body"
            /\ UNCHANGED result
    /\ UNCHANGED <<AllCssRule, mode, sheets, logsDefined, logs, elements, idx,
                   totalChecked, totalFailed, data, cur, call>>
    /\ UNCHANGED runs

\* After the awaits: the log line, the text test, the count, the
\* transparent-background test, the evaluation.
DynamicBody ==
    /\ pc = "body" /\ mode = "dynamic"
    /\ logs' = Append(logs, CheckingLog(elements[idx]))
    /\ IF HasNoText(elements[idx])
       THEN /\ idx' = idx + 1
            /\ pc' = "loop"
            /\ UNCHANGED <<totalChecked, totalFailed, cur>>
       ELSE /\ totalChecked' = CountChecked(totalChecked)
            /\ cur' = DynamicBodyLocals(elements[idx])
            /\ IF cur'.error.thrown
               THEN /\ totalFailed' = totalFailed + 1
                    /\ pc' = "report"
                    /\ UNCHANGED idx
               ELSE /\ idx' = idx + 1
                    /\ pc' = "loop"
                    /\ UNCHANGED totalFailed
    /\ UNCHANGED <<AllCssRule, mode, sheets, logsDefined, elements, data,
                   result, call>>
    /\ UNCHANGED runs

\* The rest of the catch block: the error line and the report entry.
DynamicReport ==
    /\ pc = "report" /\ mode = "dynamic"
    /\ logs' = Append(logs, ErrorLog(elements[idx], cur.error))
    /\ data' = Append(data, ReportEntry(elements[idx], cur.error))
    /\ idx' = idx + 1
    /\ pc' = "loop"
    /\ UNCHANGED <<AllCssRule, mode, sheets, logsDefined, elements,
                   totalChecked, totalFailed, cur, result, call>>
    /\ UNCHANGED runs

\* The caller (main, lines 41-52) takes the returned object; the locals of
\* the call are gone.  AllCssRule stays.
Collect ==
    /\ pc = "returned"
    /\ pc' = "idle"
    /\ mode' = "none"
    /\ sheets' = {}
    /\ logsDefined' = FALSE
    /\ logs' = << >>
    /\ elements' = << >>
    /\ idx' = 1
    /\ totalChecked' = 0
    /\ totalFailed' = 0
    /\ data' = << >>
    /\ cur' = NoCur
    /\ result' = NoResult
    /\ UNCHANGED <<AllCssRule, call>>
    /\ UNCHANGED runs

(***************************************************************************)
(* Direct calls of the exported evaluator and of the resolvers             *)
(***************************************************************************)
Levels == {"AA", "AAA", "A", "aa"}

CallCheckContrast ==
    /\ pc = "idle" /\ call = NoCall
    /\ \E textColor \in HexColors, backgroundColor \in HexColors,
          isLargeText \in BOOLEAN, contrastLevel \in Levels,
          id \in ElementIds :
          call' = [fn |-> "checkContrastCoreLogic",
                   textColor |-> textColor,
                   backgroundColor |-> backgroundColor,
                   isLargeText |-> isLargeText,
                   contrastLevel |-> contrastLevel,
                   element |-> [selector |-> "div", id |-> id],
                   error |-> CheckContrastCoreLogic(
                               HexDigitsOf(textColor),
                               HexDigitsOf(backgroundColor), isLargeText,
                               [selector |-> "div", id |-> id],
                               textColor, backgroundColor, contrastLevel)]
    /\ UNCHANGED <<AllCssRule, runVars>>
    /\ UNCHANGED runs

CallGetEffectiveBackgroundColor ==
    /\ pc = "idle" /\ call = NoCall
    /\ \E dom \in Doms, element \in 1..MaxNodes :
          call' = [fn |-> "getEffectiveBackgroundColor",
                   dom |-> dom, element |-> element,
                   value |-> GetEffectiveBackgroundColor(dom, element)]
    /\ UNCHANGED <<AllCssRule, runVars>>
    /\ UNCHANGED runs

CallGetEffectiveBackgroundColorDynamic ==
    /\ pc = "idle" /\ call = NoCall
    /\ \E dom \in Doms, element \in 1..MaxNodes :
          call' = [fn |-> "getEffectiveBackgroundColorDynamic",
                   dom |-> dom, element |-> element,
                   value |-> GetEffectiveBackgroundColorDynamic(dom, element)]
    /\ UNCHANGED <<AllCssRule, runVars>>
    /\ UNCHANGED runs

\* Font sizes and weights as style values spell them; "large", "" and
\* "bold", "normal" do not start with a number.
FontSizes == {"13px", "14px", "16px", "17px", "17.9px", "18px", "1.5em", "large", ""}
FontWeights == {"400", "699.9", "700", "900", "bold", "normal"}

CallIsTextLarge ==
    /\ pc = "idle" /\ call = NoCall
    /\ \E fontSize \in FontSizes, fontWeight \in FontWeights :
          call' = [fn |-> "isTextLarge",
                   fontSize |-> fontSize, fontWeight |-> fontWeight,
                   value |-> IsTextLarge(fontSize, fontWeight)]
    /\ UNCHANGED <<AllCssRule, runVars>>
    /\ UNCHANGED runs

\* The direct call is over.
CallReturn ==
    /\ call # NoCall
    /\ call' = NoCall
    /\ UNCHANGED <<AllCssRule, runVars>>
    /\ UNCHANGED runs

Next ==
    \/ StaticBegin \/ StaticLoop \/ StaticBody \/ StaticReport
    \/ DynamicBegin \/ DynamicLoop \/ DynamicBody \/ DynamicReport
    \/ Collect
    \/ CallCheckContrast
    \/ CallGetEffectiveBackgroundColor
    \/ CallGetEffectiveBackgroundColorDynamic
    \/ CallIsTextLarge
    \/ CallReturn

Spec == Init /\ [][Next]_vars

(***************************************************************************)
(* Calls of checkStaticCCwithCss in flight together: the caller evaluates  *)
(* the documents in parallel, each call on a page of its own, all of them  *)
(* on the one AllCssRule of the module.  A call runs from one await to the *)
(* next without interruption; at an await the other call may run.          *)
(***************************************************************************)
\* The records page.evaluate maps the elements of these documents to.
ParallelElements ==
    [text : {""}, selector : {"div"}, id : {Null},
     classList : {<<"a">>}, effectiveBackgroundColor : {White}]
    \cup
    [text : {"Lorem"}, selector : {"div"}, id : {Null},
     classList : {<<"a">>, <<"p">>}, effectiveBackgroundColor : {White}]

\* The stylesheet sets getAllCssStyleSheet finds in these documents.
ParallelSheets == {{"base.css"}, {"theme.css"}}

\* The call for document d up to its first await (page.evaluate).
\* indexAtCall is the index the call found, before it added to it.
ParallelBegin(d) ==
    /\ runs[d].pc = "idle"
    /\ \E styleSheetnameArray \in ParallelSheets, logs1 \in BOOLEAN,
          shapes \in [1..MaxElems -> ParallelElements] :
          /\ \A o \in Documents \ {d} :
                runs[o].pc # "idle" => runs[o].sheets # styleSheetnameArray
          /\ AllCssRule' = ParseAndAccumulateCSSFiles(AllCssRule, styleSheetnameArray)
          /\ runs' = [runs EXCEPT ![d] =
                        [pc |-> "loop", sheets |-> styleSheetnameArray,
                         indexAtCall |-> AllCssRule,
                         logsDefined |-> logs1, logs |-> << >>,
                         elements |-> StaticFetch(shapes), idx |-> 1,
                         totalChecked |-> 0, totalFailed |-> 0, data |-> << >>,
                         cur |-> NoCur, result |-> NoResult]]
    /\ UNCHANGED <<runVars, call>>

\* The head of the for-of loop of the call for d, as in StaticLoop.
ParallelLoop(d) ==
    LET run == runs[d] IN
    /\ run.pc = "loop"
    /\ runs' = [runs EXCEPT ![d] =
          IF run.idx > Len(run.elements)
          THEN [run EXCEPT !.pc = "returned",
                           !.result = Returned(run.data, run.totalChecked,
                                               run.totalFailed)]
          ELSE IF HasNoText(run.elements[run.idx])
          THEN [run EXCEPT !.idx = run.idx + 1]
          ELSE IF run.logsDefined
          THEN [run EXCEPT !.totalChecked = CountChecked(run.totalChecked),
                           !.pc = "body"]
          ELSE [run EXCEPT !.totalChecked = CountChecked(run.totalChecked),
                           !.pc = "returned", !.result = CaughtResult]]
    /\ UNCHANGED <<AllCssRule, runVars, call>>

\* After the awaits of the log line, as in StaticBody: the styles are read
\* from AllCssRule as it is now.
ParallelBody(d) ==
    LET run == runs[d]
        locals == StaticBodyLocals(AllCssRule, run.elements[run.idx])
    IN
    /\ run.pc = "body"
    /\ runs' = [runs EXCEPT ![d] =
          IF locals.error.thrown
          THEN [run EXCEPT !.logs = Append(run.logs, CheckingLog(run.elements[run.idx])),
                           !.cur = locals,
                           !.totalFailed = run.totalFailed + 1,
                           !.pc = "report"]
          ELSE [run EXCEPT !.logs = Append(run.logs, CheckingLog(run.elements[run.idx])),
                           !.cur = locals,
                           !.idx = run.idx + 1,
                           !.pc = "loop"]]
    /\ UNCHANGED <<AllCssRule, runVars, call>>

\* The rest of the catch block, after its await, as in StaticReport.
ParallelReport(d) ==
    LET run == runs[d] IN
    /\ run.pc = "report"
    /\ runs' = [runs EXCEPT ![d] =
          [run EXCEPT !.logs = Append(run.logs,
                                      ErrorLog(run.elements[run.idx], run.cur.error)),
                      !.data = Append(run.data,
                                      ReportEntry(run.elements[run.idx], run.cur.error)),
                      !.idx = run.idx + 1,
                      !.pc = "loop"]]
    /\ UNCHANGED <<AllCssRule, runVars, call>>

NextParallel ==
    \E d \in Documents :
       \/ ParallelBegin(d)
       \/ ParallelLoop(d)
       \/ ParallelBody(d)
       \/ ParallelReport(d)

SpecParallel == Init /\ [][NextParallel]_vars

(***************************************************************************)
(* Properties                                                              *)
(***************************************************************************)
\* The locals the loop body computes for the i-th element of the running
\* call (AllCssRule does not change while one call runs alone).
LocalsOf(i) ==
    IF mode = "static" THEN StaticBodyLocals(AllCssRule, elements[i])
    ELSE DynamicBodyLocals(elements[i])

Running == pc \in {"loop", "body", "report", "returned"}

\* C1: at every point of a run, and in the object it returns (the one of
\* the outer catch included), totalFailed <= totalChecked.
C1_FailedAtMostChecked ==
    /\ totalFailed <= totalChecked
    /\ result.returned => result.totalFailed <= result.totalChecked

\* A run that counted a failure the moment after it counted the check.
C1_Witness ==
    /\ pc = "report"
    /\ totalFailed = totalChecked
    /\ totalFailed = MaxElems

\* A colour string with no parseable numeric channel triple: not a hex
\* colour and fewer than three runs of digits.
InvalidColor(color) == ~IsHexColor(color) /\ Len(DigitRuns(color)) < 3

\* The i-th element has text and both colours, and one of them is invalid.
InvalidColorElement(i) ==
    /\ Truthy(elements[i].text)
    /\ Truthy(LocalsOf(i).textColor) /\ Truthy(LocalsOf(i).backgroundColor)
    /\ InvalidColor(LocalsOf(i).textColor) \/ InvalidColor(LocalsOf(i).backgroundColor)

\* The elements reached so far that have text and no invalid colour.
ValidReached ==
    {i \in 1..Len(elements) :
        i <= idx /\ Truthy(elements[i].text) /\ ~InvalidColorElement(i)}

\* C2: an element with text whose text or background colour has no
\* parseable channel triple is excluded from the verdict: it adds nothing
\* to totalFailed, no report entry, and nothing to totalChecked (stated for
\* the runs that were given a log array, which do not abort).
C2_InvalidColorExcluded ==
    (Running /\ logsDefined) =>
      /\ \A k \in 1..Len(data) : ~InvalidColorElement(data[k].Tag)
      /\ totalFailed <= Cardinality(ValidReached)
      /\ totalChecked <= Cardinality(ValidReached)

\* The index built from the stylesheets of the running document alone.
FreshIndex == ParseAndAccumulateCSSFiles(EmptyObject, sheets)

\* C3: while a document is evaluated in static mode the index holds only
\* the declarations of that document's stylesheets, and the styles and the
\* verdict of an element are those the fresh index gives.
C3_IndexOfThisDocumentOnly ==
    (Running /\ mode = "static") =>
      /\ AllCssRule = FreshIndex
      /\ pc = "report" => cur = StaticBodyLocals(FreshIndex, elements[idx])

\* The i-th element has text and was evaluated with a contrast ratio below
\* the required ratio.
LowContrastElement(i) ==
    /\ Truthy(elements[i].text)
    /\ LocalsOf(i).evaluated
    /\ LocalsOf(i).error.thrown
    /\ LocalsOf(i).error.message.text = "Contrast ratio is below the required"

LowContrastPositions == {i \in 1..Len(elements) : LowContrastElement(i)}

\* C4: the entries a run returns are exactly the elements whose contrast
\* ratio was below the required ratio, one entry each, in input order.
C4_EntriesAreLowContrastInOrder ==
    result.returned =>
      /\ Len(result.xlsxArray) = Cardinality(LowContrastPositions)
      /\ \A k \in 1..Len(result.xlsxArray) :
            result.xlsxArray[k].Tag \in LowContrastPositions
      /\ \A j, k \in 1..Len(result.xlsxArray) :
            j < k => result.xlsxArray[j].Tag < result.xlsxArray[k].Tag

\* The i-th element has text and its background resolves to the
\* transparent sentinel.
TransparentBackgroundElement(i) ==
    /\ Truthy(elements[i].text)
    /\ LocalsOf(i).backgroundColor \in {TransparentRgba, TransparentWord}

\* C5: an element with text whose background resolves to the transparent
\* sentinel gets no verdict: no totalFailed increment, no report entry.
C5_TransparentBackgroundNoVerdict ==
    (Running /\ logsDefined) =>
      /\ pc = "report" => ~TransparentBackgroundElement(idx)
      /\ \A k \in 1..Len(data) : ~TransparentBackgroundElement(data[k].Tag)

\* C6: a level other than "AA" and "AAA" makes the evaluator throw the
\* invalid-level error whatever the two colours and the size class, the
\* call touches no counter and no entry, and no pipeline turns that error
\* into a failure of an element (a counted failure, a report entry, a log).
C6_InvalidLevelIsFatal ==
    /\ (call.fn = "checkContrastCoreLogic" /\ call.contrastLevel \notin {"AA", "AAA"})
          => (call.error = InvalidLevelError /\ totalFailed = 0 /\ data = << >>)
    /\ cur.ran => cur.error # InvalidLevelError
    /\ \A k \in 1..Len(data) :
          data[k].Reason_For_Failing # InvalidLevelError.message

\* A call with an unsupported level and a pair whose ratio (2.32) is below
\* every threshold: the level error is what is thrown.
C6_Witness ==
    /\ call.fn = "checkContrastCoreLogic"
    /\ call.contrastLevel = "A"
    /\ call.textColor = "#AAAAAA" /\ call.backgroundColor = "#FFFFFF"
    /\ call.error = InvalidLevelError

\* The table of required ratios (times ten).
RequiredTable(contrastLevel, isLargeText) ==
    CASE contrastLevel = "AA"  /\ isLargeText  -> 30
      [] contrastLevel = "AA"  /\ ~isLargeText -> 45
      [] contrastLevel = "AAA" /\ isLargeText  -> 45
      [] contrastLevel = "AAA" /\ ~isLargeText -> 70

\* The contrast ratio of the two colours of the direct call is strictly
\* below required10 / 10.
CallRatioBelow(required10) ==
    LET lt == GetLuminance(HexToRgb(HexDigitsOf(call.textColor)))
        lb == GetLuminance(HexToRgb(HexDigitsOf(call.backgroundColor)))
    IN  10 * (Max(lt, lb) + 500000) < required10 * (Min(lt, lb) + 500000)

\* C7: the required ratio is 3.0 (AA large), 4.5 (AA normal), 4.5 (AAA
\* large), 7.0 (AAA normal), and the evaluator reports a failure exactly
\* when the ratio is strictly below it.  Known pairs on white: #AAAAAA
\* (2.32) fails everywhere, #888888 (3.54) passes only AA large, #767676
\* (4.54) fails only AAA normal, #000000 (21) passes everywhere; a colour
\* on itself (1.0) fails everywhere.
C7_RequiredRatioStrictlyBelowFails ==
    (call.fn = "checkContrastCoreLogic" /\ call.contrastLevel \in {"AA", "AAA"}) =>
      LET required10 == RequiredTable(call.contrastLevel, call.isLargeText)
          onWhite(c) == call.textColor = c /\ call.backgroundColor = "#FFFFFF"
      IN  /\ call.error.thrown <=> CallRatioBelow(required10)
          /\ call.error.thrown => call.error.message.required = required10
          /\ onWhite("#AAAAAA") => call.error.thrown
          /\ onWhite("#888888") =>
                (call.error.thrown <=> ~(call.contrastLevel = "AA" /\ call.isLargeText))
          /\ onWhite("#767676") =>
                (call.error.thrown <=> (call.contrastLevel = "AAA" /\ ~call.isLargeText))
          /\ onWhite("#000000") => ~call.error.thrown
          /\ call.textColor = call.backgroundColor => call.error.thrown

\* #767676 on white (4.54) at AAA, normal size: a failure against 7.0.
C7_Witness ==
    /\ call.fn = "checkContrastCoreLogic"
    /\ call.textColor = "#767676" /\ call.backgroundColor = "#FFFFFF"
    /\ call.contrastLevel = "AAA" /\ ~call.isLargeText
    /\ call.error.thrown
    /\ call.error.message.required = 70

RECURSIVE KthParent(_, _, _)
\* The k-th ancestor of a node (itself for k = 0), NoElement past the root.
KthParent(dom, element, k) ==
    IF k = 0 \/ element = NoElement THEN element
    ELSE KthParent(dom, dom.parent[element], k - 1)

Opaque(background) ==
    background # "" /\ background # TransparentRgba /\ background # TransparentWord

\* The own background of the nearest node, from the element upwards, whose
\* own background is present and not transparent; white when there is none.
NearestOpaque(dom, element) ==
    LET ups == {k \in 0..(MaxNodes - 1) :
                  /\ KthParent(dom, element, k) # NoElement
                  /\ Opaque(dom.bg[KthParent(dom, element, k)])}
    IN  IF ups = {} THEN White
        ELSE dom.bg[KthParent(dom, element,
                              CHOOSE k \in ups : \A j \in ups : k <= j)]

\* C8: on every element of a finite tree each resolver returns the own
\* background of the nearest element of the chain element, parent,
\* grandparent, ... that has a present, non-transparent background, white
\* when the whole chain is transparent, and never the transparent sentinel;
\* so no element reaches a pipeline with a transparent effective background.
C8_EffectiveBackgroundIsNearestOpaque ==
    /\ call.fn \in {"getEffectiveBackgroundColor", "getEffectiveBackgroundColorDynamic"}
          => /\ call.value = NearestOpaque(call.dom, call.element)
             /\ call.value \notin {TransparentRgba, TransparentWord}
    /\ (Running /\ mode = "static") =>
          \A i \in 1..Len(elements) :
             Truthy(elements[i].text) => Opaque(elements[i].effectiveBackgroundColor)
    /\ (Running /\ mode = "dynamic") =>
          \A i \in 1..Len(elements) :
             Truthy(elements[i].text) => Opaque(elements[i].computedStyles.backgroundColor)

\* A transparent element under a parent with no background of its own: the
\* grandparent's black is returned.
C8_Witness ==
    /\ call.fn = "getEffectiveBackgroundColor"
    /\ call.element = MaxNodes
    /\ call.dom.parent[call.element] # NoElement
    /\ call.dom.parent[call.dom.parent[call.element]] # NoElement
    /\ call.dom.bg[call.element] = TransparentRgba
    /\ call.dom.bg[call.dom.parent[call.element]] = TransparentWord
    /\ call.dom.bg[call.dom.parent[call.dom.parent[call.element]]] = "rgb(0, 0, 0)"
    /\ call.value = "rgb(0, 0, 0)"

\* A simple class selector: /^\.[\w-]+$/ on the selectors of the files.
IsClassSelector(selector) == selector \in {".a", ".p"}

\* C9: only simple class selectors add to the index: every property value
\* the index holds under a key was declared by a rule with the class
\* selector of that key.
C9_OnlyClassSelectorsIndexed ==
    \A key \in DOMAIN AllCssRule : \A prop \in DOMAIN AllCssRule[key] :
       \E f \in DOMAIN CssFilesJson :
          /\ CssParse(CssFilesJson[f]).parses
          /\ \E r \in DOMAIN CssParse(CssFilesJson[f]).rules :
                LET rule == CssParse(CssFilesJson[f]).rules[r]
                IN  /\ rule.type = "rule"
                    /\ \E s \in DOMAIN rule.selectors :
                          /\ IsClassSelector(rule.selectors[s])
                          /\ StripLeadingDot(rule.selectors[s]) = key
                    /\ \E d \in DOMAIN rule.declarations :
                          /\ rule.declarations[d].property = prop
                          /\ rule.declarations[d].value = AllCssRule[key][prop]

\* The positions of classList whose class defines prop in the index.
Definers(classList, prop) ==
    {k \in 1..Len(classList) :
        /\ classList[k] \in DOMAIN AllCssRule
        /\ prop \in DOMAIN AllCssRule[classList[k]]
        /\ Truthy(AllCssRule[classList[k]][prop])}

\* The value of the last class of classList that defines prop, else fallback.
LastDefined(classList, prop, fallback) ==
    IF Definers(classList, prop) = {} THEN fallback
    ELSE AllCssRule[classList[CHOOSE k \in Definers(classList, prop) :
                                 \A j \in Definers(classList, prop) : j <= k]][prop]

\* C10: in static mode each style value of an element is that of the last
\* class of its classList that defines the property; with no such class the
\* background is the element's effective background (white when that is
\* missing), the size "16px", the weight "400"; and an element with no
\* text colour is not evaluated: no failure counted, no report entry.
C10_StaticStylesLastClassWins ==
    (mode = "static" /\ cur.ran) =>
      LET classList == cur.element.classList
      IN  /\ cur.textColor = LastDefined(classList, "color", Null)
          /\ cur.backgroundColor =
                LastDefined(classList, "background-color",
                            IF Truthy(cur.element.effectiveBackgroundColor)
                            THEN cur.element.effectiveBackgroundColor ELSE White)
          /\ cur.fontSize = LastDefined(classList, "font-size", "16px")
          /\ cur.fontWeight = LastDefined(classList, "font-weight", "400")
          /\ cur.textColor = Null =>
                /\ ~cur.evaluated /\ ~cur.error.thrown /\ pc # "report"
                /\ \A k \in 1..Len(data) : data[k].Tag # cur.element.html

\* Two classes that both define color, with different values: the second
\* one's value is the text colour; no class defines a size, so "16px".
C10_Witness ==
    /\ mode = "static" /\ cur.ran
    /\ cur.element.classList = <<"p", "a">>
    /\ Definers(cur.element.classList, "color") = {1, 2}
    /\ AllCssRule["p"]["color"] = "red"
    /\ cur.textColor = AllCssRule["a"]["color"]
    /\ cur.textColor # "red"
    /\ Definers(cur.element.classList, "font-size") = {}
    /\ cur.fontSize = "16px"

\* The locals the loop body computes for a record of the running call.
LocalsOfElement(e) ==
    IF mode = "static" THEN StaticBodyLocals(AllCssRule, e)
    ELSE DynamicBodyLocals(e)

RECURSIVE RunOver(_, _)
\* What a run that returns from its loop returns on the records es, every
\* one of them counted and evaluated; acc is the result so far.
RunOver(es, acc) ==
    IF es = << >> THEN acc
    ELSE LET l == LocalsOfElement(Head(es))
         IN  RunOver(Tail(es),
                     Returned(IF l.error.thrown
                              THEN Append(acc.xlsxArray, ReportEntry(Head(es), l.error))
                              ELSE acc.xlsxArray,
                              acc.totalChecked + 1,
                              acc.totalFailed + (IF l.error.thrown THEN 1 ELSE 0)))

\* The input of the running call without its empty-text records.
WithText == SelectSeq(elements, LAMBDA e : e.text # "")

\* What the running call returns on the input without its empty-text
\* records (a static call without a log array ends in the outer catch at
\* the first record).
ResultWithoutEmpty ==
    IF ~logsDefined /\ WithText # << >> THEN CaughtResult
    ELSE RunOver(WithText, Returned(<< >>, 0, 0))

\* C11: in both modes a record with empty text is skipped: while the run
\* goes on, the counters never exceed the number of records with text
\* reached so far and no entry belongs to an empty-text record; and the
\* run returns what it returns on the input without the empty-text records.
C11_EmptyTextSkipped ==
    Running =>
      /\ totalChecked <= Cardinality({i \in 1..Len(elements) :
                                        i <= idx /\ elements[i].text # ""})
      /\ \A k \in 1..Len(data) : elements[data[k].Tag].text # ""
      /\ (pc \in {"body", "report"} /\ elements[idx].text = "") =>
            (totalChecked = Cardinality({i \in 1..Len(elements) :
                                           i < idx /\ elements[i].text # ""})
             /\ pc # "report")
      /\ result.returned => result = ResultWithoutEmpty

\* A run over an empty-text record that would fail if it were evaluated
\* (class a), followed by a record with text that fails: one checked, one
\* failed, one entry, for the second record.
C11_Witness ==
    /\ pc = "returned" /\ mode = "static" /\ logsDefined
    /\ elements[1].text = "" /\ elements[1].classList = <<"a">>
    /\ elements[2].text # ""
    /\ result.totalChecked = 1 /\ result.totalFailed = 1
    /\ Len(result.xlsxArray) = 1 /\ result.xlsxArray[1].Tag = 2

\* C12: the reason of every low-contrast failure carries the element's id
\* when it has one and "No ID" when it has none, with the tag name, the
\* ratio, the required ratio, the size class, the level and the two
\* original colour strings.
C12_ReasonCarriesIdOrNoId ==
    Running =>
      \A k \in 1..Len(data) :
         LET reason == data[k].Reason_For_Failing
             l == LocalsOf(data[k].Tag)
         IN  reason.text = "Contrast ratio is below the required" =>
               /\ reason.id = IdOrNoId(elements[data[k].Tag])
               /\ reason.selector = elements[data[k].Tag].selector
               /\ reason.textColor = l.textColor
               /\ reason.backgroundColor = l.backgroundColor
               /\ reason.level = PipelineLevel
               /\ reason.size = (IF l.isLargeText THEN "large" ELSE "normal")
               /\ reason.required = RequiredTable(PipelineLevel, l.isLargeText)

RECURSIVE StaticRunOver(_, _, _)
\* What a static call with a log array returns on the records es when the
\* index is the same at every element; acc is the result so far.
StaticRunOver(index, es, acc) ==
    IF es = << >> THEN acc
    ELSE IF Head(es).text = "" THEN StaticRunOver(index, Tail(es), acc)
    ELSE LET l == StaticBodyLocals(index, Head(es))
         IN  StaticRunOver(index, Tail(es),
                Returned(IF l.error.thrown
                         THEN Append(acc.xlsxArray, ReportEntry(Head(es), l.error))
                         ELSE acc.xlsxArray,
                         acc.totalChecked + 1,
                         acc.totalFailed + (IF l.error.thrown THEN 1 ELSE 0)))

\* What the call for document d returns when it runs alone from the index
\* it found: no other call adds to the index before it returns.
AloneResult(d) ==
    IF ~runs[d].logsDefined /\ \E i \in 1..Len(runs[d].elements) :
                                  runs[d].elements[i].text # ""
    THEN CaughtResult
    ELSE StaticRunOver(ParseAndAccumulateCSSFiles(runs[d].indexAtCall, runs[d].sheets),
                       runs[d].elements, Returned(<< >>, 0, 0))

\* C13: two static calls for different documents with different
\* stylesheet sets, their steps interleaved at the awaits, each return the
\* entries, totalChecked and totalFailed that the same call returns alone.
C13_InterleavedAsAlone ==
    \A d \in Documents :
       runs[d].pc = "returned" => runs[d].result = AloneResult(d)

\* The number a font size starts with, in hundredths; -1 when it starts
\* with none.
LeadingNumber(fontSize) ==
    CASE fontSize \in {"13px"}   -> 1300
      [] fontSize \in {"14px"}   -> 1400
      [] fontSize \in {"16px"}   -> 1600
      [] fontSize \in {"17px"}   -> 1700
      [] fontSize \in {"17.9px"} -> 1790
      [] fontSize \in {"18px"}   -> 1800
      [] fontSize \in {"1.5em"}  -> 150
      [] OTHER                   -> -1

\* The integer a font weight starts with; -1 when it starts with none.
LeadingInteger(fontWeight) ==
    CASE fontWeight \in {"400"}   -> 400
      [] fontWeight \in {"699.9"} -> 699
      [] fontWeight \in {"700"}   -> 700
      [] fontWeight \in {"900"}   -> 900
      [] OTHER                    -> -1

\* Large: size >= 18, or size >= 14 and weight >= 700.
LargeByRule(fontSize, fontWeight) ==
    \/ LeadingNumber(fontSize) >= 1800
    \/ LeadingNumber(fontSize) >= 1400 /\ LeadingInteger(fontWeight) >= 700

\* C14: text is large exactly when the leading number of fontSize is at
\* least 18, or at least 14 with an integer fontWeight of at least 700; a
\* size that does not parse gives normal, a weight that does not parse
\* counts as not bold.  isLarge("18px","400"), isLarge("14px","700") hold;
\* isLarge("17px","400"), isLarge("13px","700") do not.  Both pipelines
\* classify their elements that way.
C14_LargeTextRule ==
    /\ call.fn = "isTextLarge" =>
         LET is(size, weight) == call.fontSize = size /\ call.fontWeight = weight
         IN  /\ call.value <=> LargeByRule(call.fontSize, call.fontWeight)
             /\ is("18px", "400") => call.value
             /\ is("17px", "400") => ~call.value
             /\ is("14px", "700") => call.value
             /\ is("13px", "700") => ~call.value
             /\ is("17.9px", "699.9") => ~call.value
             /\ is("17.9px", "900") => call.value
             /\ call.fontSize \in {"large", ""} => ~call.value
             /\ call.fontWeight \in {"bold", "normal"} =>
                   (call.value <=> call.fontSize = "18px")
    /\ (cur.ran /\ cur.evaluated) =>
         (cur.isLargeText <=> LargeByRule(cur.fontSize, cur.fontWeight))

\* A bold 14px text: large through the second operand.
C14_Witness ==
    /\ call.fn = "isTextLarge"
    /\ call.fontSize = "14px" /\ call.fontWeight = "700"
    /\ call.value

\* What the evaluator throws on the direct call's arguments with the text
\* colour replaced by textColor.
CallErrorWithTextColor(textColor) ==
    CheckContrastCoreLogic(HexDigitsOf(textColor),
                           HexDigitsOf(call.backgroundColor), call.isLargeText,
                           call.element, textColor, call.backgroundColor,
                           call.contrastLevel)

\* C15: the 3-digit hex colour #abc is accepted as a hex colour and
\* evaluated as the triple (0xaa, 0xbb, 0xcc): the same channel values,
\* and so the same verdict, as #aabbcc.
C15_ShortHexAsLongHex ==
    (call.fn = "checkContrastCoreLogic" /\ call.textColor = "#abc") =>
      /\ IsHexColor(call.textColor)
      /\ call.error.thrown = CallErrorWithTextColor("#aabbcc").thrown
      /\ HexToRgb(HexDigitsOf(call.textColor)) = <<170, 187, 204>>
      /\ HexToRgb(HexDigitsOf(call.textColor)) = HexToRgb(HexDigitsOf("#aabbcc"))

\* The positions of the fetched elements that have text, and of those
\* among them on which checkContrast throws.
TextPositions == {i \in 1..Len(elements) : elements[i].text # ""}
FailedPositions == {i \in TextPositions : LocalsOf(i).error.thrown}

\* C16: checkStaticCCwithCss called as the driver calls it, with a page
\* and the stylesheet names only, returns totalChecked = the number of
\* fetched elements with text, totalFailed = the number of those that
\* failed the check, and one xlsxArray entry per failed element.
C16_DriverCallCounts ==
    (mode = "static" /\ ~logsDefined /\ result.returned) =>
      /\ result.totalChecked = Cardinality(TextPositions)
      /\ result.totalFailed = Cardinality(FailedPositions)
      /\ Len(result.xlsxArray) = Cardinality(FailedPositions)
      /\ \A k \in 1..Len(result.xlsxArray) :
            result.xlsxArray[k].Tag \in FailedPositions

=============================================================================
